---- MODULE Spec2Model ----
(***************************************************************************)
(* Model of the CPI analytics engine of streamlit-cpi-analysis:            *)
(*   - the change-rate calculator   (src/src/data/processor.py)            *)
(*   - the contribution decomposer  (src/src/analysis/contribution.py)     *)
(*   - the contribution data loader (src/src/data/loader.py)               *)
(*   - the chart y-axis range logic (src/cpi-analytics-app.py)             *)
(*   - the AI requests of the pages (src/cpi-analytics-app.py, main.py)    *)
(* A DataFrame is a sequence of rows (records); a float is an exact        *)
(* rational, or one of NaN, +inf, -inf.                                    *)
(***************************************************************************)
EXTENDS Integers, Sequences, FiniteSets, TLC

VARIABLES
    pc,               \* "input" before the operation of the run, "done" after it
    df,               \* the input table handed to the engine (rows PRODUCT, DATE, VALUE, FREQUENCY)
    yoy_data,         \* result of calculate_yoy_monthly_data
    selected_categories, \* argument of calculate_contribution_data_for_categories
    user_start_date,  \* argument of calculate_contribution_data_for_categories / load start_date
    periods,          \* the lag computed by get_periods_for_frequency inside the decomposer
    contribution_data,\* result of calculate_contribution_data_for_categories
    all_y_values,     \* the values pooled by a chart
    y_range,          \* the display range a chart computed
    upstream,         \* the warehouse time series the loader queries
    frequency,        \* the frequency selected in the sidebar
    snowflake_available, \* st.session_state['snowflake_available']
    metrics,          \* result of calculate_inflation_metrics (a dict: key -> value)
    ai_requests,      \* number of AI queries (CORTEX.COMPLETE / AI_AGG) sent to the warehouse
    widgets,          \* the widget values of the running Streamlit app
    cache,            \* the entries st.cache_data holds for the loader
    clock,            \* seconds since the process started
    queries           \* number of time-series queries sent to the warehouse

vars == <<pc, df, yoy_data, selected_categories, user_start_date, periods,
          contribution_data, all_y_values, y_range, upstream, frequency,
          snowflake_available, cache, clock, queries,
                   metrics, ai_requests, widgets>>

\* a dict of placeholders in place of the empty dict
NoMetricsPlaceholder == [key \in {"current_level"} |-> 0]

\* the empty dict
NoMetrics == <<>>

\* st.cache_data before any call: no entry
NoCache == {}

\* no Streamlit page is running
NoWidgets == [app |-> "none"]

-----------------------------------------------------------------------------
(* Floats: exact rationals n/d (d > 0, lowest terms), NaN, +inf, -inf.      *)

Abs(x) == IF x < 0 THEN -x ELSE x

RECURSIVE Gcd(_, _)
Gcd(a, b) == IF b = 0 THEN a ELSE Gcd(b, a % b)

NaN == [k |-> "nan", n |-> 0, d |-> 1]
PosInf == [k |-> "inf", n |-> 1, d |-> 1]
NegInf == [k |-> "inf", n |-> -1, d |-> 1]

Rat(n, d) ==
    LET s == IF d < 0 THEN -1 ELSE 1
        g == Gcd(Abs(n), Abs(d))
    IN  [k |-> "num", n |-> (s * n) \div g, d |-> (s * d) \div g]

Num(i) == [k |-> "num", n |-> i, d |-> 1]

IsNaN(x) == x.k = "nan"
IsNum(x) == x.k = "num"
Sign(x) == IF x.n > 0 THEN 1 ELSE IF x.n < 0 THEN -1 ELSE 0

FNeg(x) == IF IsNaN(x) THEN NaN ELSE [x EXCEPT !.n = -x.n]

FAdd(a, b) ==
    IF IsNaN(a) \/ IsNaN(b) THEN NaN
    ELSE IF IsNum(a) /\ IsNum(b) THEN Rat(a.n * b.d + b.n * a.d, a.d * b.d)
    ELSE IF IsNum(a) THEN b
    ELSE IF IsNum(b) THEN a
    ELSE IF a.n = b.n THEN a ELSE NaN

FSub(a, b) == FAdd(a, FNeg(b))

FMul(a, b) ==
    IF IsNaN(a) \/ IsNaN(b) THEN NaN
    ELSE IF IsNum(a) /\ IsNum(b) THEN Rat(a.n * b.n, a.d * b.d)
    ELSE IF Sign(a) * Sign(b) = 0 THEN NaN
    ELSE IF Sign(a) * Sign(b) > 0 THEN PosInf ELSE NegInf

\* IEEE division as numpy performs it: x/0 is +-inf, 0/0 is NaN, nothing is raised
FDiv(a, b) ==
    IF IsNaN(a) \/ IsNaN(b) THEN NaN
    ELSE IF IsNum(a) /\ IsNum(b) THEN
        IF b.n = 0 THEN (IF a.n = 0 THEN NaN ELSE IF a.n > 0 THEN PosInf ELSE NegInf)
        ELSE Rat(a.n * b.d, a.d * b.n)
    ELSE IF IsNum(b) THEN (IF Sign(a) * (IF b.n < 0 THEN -1 ELSE 1) > 0 THEN PosInf ELSE NegInf)
    ELSE IF IsNum(a) THEN Num(0)
    ELSE NaN

\* a < b ; every comparison with NaN is false
FLt(a, b) ==
    IF IsNaN(a) \/ IsNaN(b) THEN FALSE
    ELSE IF IsNum(a) /\ IsNum(b) THEN a.n * b.d < b.n * a.d
    ELSE IF IsNum(a) THEN b.n > 0
    ELSE IF IsNum(b) THEN a.n < 0
    ELSE a.n < b.n

FLe(a, b) == ~IsNaN(a) /\ ~IsNaN(b) /\ ~FLt(b, a)
FAbs(x) == IF IsNaN(x) THEN NaN ELSE [x EXCEPT !.n = Abs(x.n)]
FMax(a, b) == IF FLt(a, b) THEN b ELSE a
FMin(a, b) == IF FLt(b, a) THEN b ELSE a

-----------------------------------------------------------------------------
(* DataFrame helpers                                                        *)

\* insert row r into the DATE-sorted sequence s, after every row with DATE <= r.DATE
RECURSIVE InsertByDate(_, _)
InsertByDate(s, r) ==
    IF s = <<>> THEN <<r>>
    ELSE IF s[1].DATE <= r.DATE THEN <<s[1]>> \o InsertByDate(Tail(s), r)
    ELSE <<r>> \o s

RECURSIVE SortFrom(_, _)
SortFrom(s, acc) ==
    IF s = <<>> THEN acc ELSE SortFrom(Tail(s), InsertByDate(acc, Head(s)))

\* DataFrame.sort_values('DATE')
SortByDate(s) == SortFrom(s, <<>>)

\* pct_change with the leading undefined values filled with 0
PctChangeFilled(s, i, p) ==
    IF i <= p THEN Num(0)
    ELSE FMul(FSub(FDiv(Num(s[i].VALUE), Num(s[i - p].VALUE)), Num(1)), Num(100))

\* Series.pct_change(periods=p) * 100 at position i (1-based) of the VALUE column
PctChange(s, i, p) ==
    IF i <= p THEN NaN
    ELSE FMul(FSub(FDiv(Num(s[i].VALUE), Num(s[i - p].VALUE)), Num(1)), Num(100))

-----------------------------------------------------------------------------
(* Configuration (src/src/config/settings.py)                               *)

\* the lookup with the annual lag as the default
get_periods_default_annual(f) ==
    CASE f = "Monthly" -> 12
      [] f = "Quarterly" -> 4
      [] f = "Semi-annual" -> 2
      [] OTHER -> 1

\* FREQUENCY_PERIODS.get(frequency, 12)
get_periods_for_frequency(f) ==
    CASE f = "Monthly" -> 12
      [] f = "Quarterly" -> 4
      [] f = "Semi-annual" -> 2
      [] f = "Annual" -> 1
      [] OTHER -> 12

-----------------------------------------------------------------------------
(* Change-rate calculator (src/src/data/processor.py)                       *)

\* the lag calculate_yoy_monthly_data passes to pct_change for YoY_Change
YoYLag == 12

\* the row order calculate_yoy_monthly_data computes on
YoYOrderUnsorted(t) == t

\* the rows sorted by DATE, latest first
YoYOrderDescending(t) ==
    LET sorted == SortByDate(t)
    IN  [i \in 1..Len(t) |-> sorted[Len(t) + 1 - i]]

YoYOrder(t) == SortByDate(t)

\* calculate_yoy_monthly_data(df): empty in, empty out; otherwise the rows sorted by
\* DATE with YoY_Change and MoM_Change added (Year, Month and Month_Name are
\* reformattings of DATE and carry no further information)
calculate_yoy_monthly_data(t) ==
    IF t = <<>> THEN <<>>
    ELSE LET df_sorted == YoYOrder(t)
         IN  [i \in 1..Len(df_sorted) |->
                [PRODUCT    |-> df_sorted[i].PRODUCT,
                 DATE       |-> df_sorted[i].DATE,
                 VALUE      |-> df_sorted[i].VALUE,
                 FREQUENCY  |-> df_sorted[i].FREQUENCY,
                 YoY_Change |-> PctChange(df_sorted, i, YoYLag),
                 MoM_Change |-> PctChange(df_sorted, i, 1)]]

-----------------------------------------------------------------------------
(* Inputs of the change-rate runs: one entity's series on a regular grid    *)

MaxLen == 13            \* longest series handed to the change-rate calculator
BaseLevel == 100        \* index level of the base period
Slopes == {0, 3}        \* level added per period
Jumps == {-10, 10}      \* level added from the jump period on
Orders == {"asc", "desc", "rot"}
FrequencyLabels == {"Monthly", "Quarterly", "Semi-annual", "Annual", "Weekly"}

\* level of period d of the series with the given slope, jump period and jump
Level(d, slope, j, jump) == BaseLevel + slope * d + (IF d >= j THEN jump ELSE 0)

\* position in the input table of the row of period d (a permutation of 1..n)
Position(o, n, d) ==
    CASE o = "asc" -> d
      [] o = "desc" -> n + 1 - d
      [] o = "rot" -> ((d + (n \div 2) - 1) % n) + 1

\* the input table: PRODUCT p, periods 1..n, in row order o
SeriesTable(p, f, n, slope, j, jump, o) ==
    [i \in 1..n |->
        LET d == CHOOSE x \in 1..n : Position(o, n, x) = i
        IN  [PRODUCT |-> p, DATE |-> d, VALUE |-> Level(d, slope, j, jump), FREQUENCY |-> f]]

NoRange == <<NaN, NaN>>

InitRates ==
    /\ pc = "input"
    /\ \E n \in 0..MaxLen, f \in FrequencyLabels, slope \in Slopes, jump \in Jumps, o \in Orders :
         \E j \in 1..(n + 1) :
            df = SeriesTable("All items", f, n, slope, j, jump, o)
    /\ yoy_data = <<>>
    /\ selected_categories = <<>>
    /\ user_start_date = <<>>
    /\ periods = 0
    /\ contribution_data = <<>>
    /\ all_y_values = <<>>
    /\ y_range = NoRange
    /\ upstream = <<>>
    /\ frequency = "Monthly"
    /\ snowflake_available = TRUE
    /\ metrics = NoMetrics
    /\ cache = NoCache
    /\ clock = 0
    /\ queries = 0
    /\ ai_requests = 0
    /\ widgets = NoWidgets

\* a chart or export calls calculate_yoy_monthly_data on the entity's rows
CalculateYoYMonthlyData ==
    /\ pc = "input"
    /\ yoy_data' = calculate_yoy_monthly_data(df)
    /\ pc' = "yoy_done"
    /\ UNCHANGED <<df, selected_categories, user_start_date, periods, contribution_data,
                   all_y_values, y_range, upstream, frequency, snowflake_available, cache, clock, queries,
                   metrics, ai_requests, widgets>>

NextRates == CalculateYoYMonthlyData

SpecRates == InitRates /\ [][NextRates]_vars

-----------------------------------------------------------------------------
(* Contribution decomposer (src/src/analysis/contribution.py)               *)

\* CPI_CONTRIBUTION_CATEGORIES, in the order the dictionary is iterated
Categories == <<"Core Services", "Core Goods", "Food", "Energy">>

CategoryProducts(c) ==
    CASE c = "Core Services" -> {"Services less energy services", "Shelter", "Transportation services"}
      [] c = "Core Goods" -> {"Commodities less food and energy commodities", "New vehicles",
                              "Used vehicles and trucks"}
      [] c = "Food" -> {"Food", "Food at home", "Food away from home"}
      [] c = "Energy" -> {"Energy", "Energy commodities", "Energy services", "Gasoline (all types)"}

CategoryWeight(c) ==
    CASE c = "Core Services" -> Rat(58, 100)
      [] c = "Core Goods" -> Rat(20, 100)
      [] c = "Food" -> Rat(14, 100)
      [] c = "Energy" -> Rat(8, 100)

CategoryColor(c) ==
    CASE c = "Core Services" -> "#4E8397"
      [] c = "Core Goods" -> "#845EC2"
      [] c = "Food" -> "#F18F01"
      [] c = "Energy" -> "#C73E1D"

\* the product the if/elif chain looks for in the category's rows of the date
RepresentativeName(c) ==
    CASE c = "Core Services" -> "Services less energy services"
      [] c = "Core Goods" -> "Commodities less food and energy commodities"
      [] c = "Food" -> "Food"
      [] c = "Energy" -> "Energy"

\* label of the core aggregate in selected_categories (the source prefixes an emoji)
CoreCPILabel == "Core CPI"

\* every date of the column, repeated ones included
UniqueDatesRepeated(s, seen) == [i \in 1..Len(s) |-> s[i].DATE]

\* Series.unique(): the distinct dates in order of first appearance
RECURSIVE UniqueDates(_, _)
UniqueDates(s, seen) ==
    IF s = <<>> THEN <<>>
    ELSE IF s[1].DATE \in seen THEN UniqueDates(Tail(s), seen)
    ELSE <<s[1].DATE>> \o UniqueDates(Tail(s), seen \cup {s[1].DATE})

\* index of the first row of s with the given date, 0 if there is none
FirstIndexOfDate(s, date) ==
    IF \E i \in 1..Len(s) : s[i].DATE = date
    THEN CHOOSE i \in 1..Len(s) : s[i].DATE = date /\ \A j \in 1..(i - 1) : s[j].DATE # date
    ELSE 0

\* the frequency read from the first headline row
TableFrequencyOfHeadline(t) ==
    LET all_items == SelectSeq(t, LAMBDA r : r.PRODUCT = "All items")
    IN  IF all_items # <<>> /\ "FREQUENCY" \in DOMAIN all_items[1]
        THEN all_items[1].FREQUENCY ELSE "Monthly"

\* df['FREQUENCY'].iloc[0] if 'FREQUENCY' in df.columns, else 'Monthly'
TableFrequency(t) == IF "FREQUENCY" \in DOMAIN t[1] THEN t[1].FREQUENCY ELSE "Monthly"

\* show_core_cpi with an empty list treated like None
ShowCoreCPIFalsy(sel) == sel = <<>> \/ sel[1] = {} \/ CoreCPILabel \in sel[1]

\* selected_categories is None or '<Core CPI>' in selected_categories
ShowCoreCPI(sel) == sel = <<>> \/ CoreCPILabel \in sel[1]

\* the representative row picked for category c among the rows of the date, falling
\* back on the first row of the category when the designated product is absent
RepresentativeRowFallback(c, date_data) ==
    LET category_data == SelectSeq(date_data, LAMBDA r : r.PRODUCT \in CategoryProducts(c))
        rep == SelectSeq(category_data, LAMBDA r : r.PRODUCT = RepresentativeName(c))
    IN  IF category_data = <<>> THEN <<>>
        ELSE IF rep # <<>> THEN <<rep[1]>> ELSE <<category_data[1]>>

\* the representative row picked for category c among the rows of the date:
\* <<row>>, or <<>> when representative_product stays None
RepresentativeRow(c, date_data) ==
    LET category_data == SelectSeq(date_data, LAMBDA r : r.PRODUCT \in CategoryProducts(c))
        rep == SelectSeq(category_data, LAMBDA r : r.PRODUCT = RepresentativeName(c))
    IN  IF category_data = <<>> THEN <<>>
        ELSE IF rep # <<>> THEN <<rep[1]>> ELSE <<>>

\* category_yoy computed with the lag taken one row short
CategoryYoYShort(product_historical, p) ==
    LET n == Len(product_historical)
    IN  FMul(FSub(FDiv(Num(product_historical[n].VALUE),
                       Num(product_historical[n - p + 1].VALUE)), Num(1)), Num(100))

\* category_yoy against the observation dated p periods before the last one
\* (a lag on the calendar grid), undefined when that period has no observation
CategoryYoYCalendar(product_historical, p) ==
    LET n == Len(product_historical)
        year_ago == SelectSeq(product_historical,
                              LAMBDA r : r.DATE = product_historical[n].DATE - p)
    IN  IF year_ago = <<>> THEN NaN
        ELSE FMul(FSub(FDiv(Num(product_historical[n].VALUE), Num(year_ago[1].VALUE)),
                       Num(1)), Num(100))

\* category_yoy = ((current_value / year_ago_value) - 1) * 100
CategoryYoY(product_historical, p) ==
    LET n == Len(product_historical)
        current_value == Num(product_historical[n].VALUE)
        year_ago_value == Num(product_historical[n - p].VALUE)
    IN  FMul(FSub(FDiv(current_value, year_ago_value), Num(1)), Num(100))

\* contribution with the weight applied to the level ratio instead of the rate
ContributionOfUnweighted(c, category_yoy) == category_yoy

\* contribution = category_info['weight'] * category_yoy
ContributionOf(c, category_yoy) == FMul(CategoryWeight(c), category_yoy)

\* the start-date test with a strict comparison
PassesStartDateStrict(date, start) == start = <<>> \/ date > start[1]

\* user_start_date is None or date >= pd.to_datetime(user_start_date)
PassesStartDate(date, start) == start = <<>> \/ date >= start[1]

\* core_cpi_yoy of a row: None (<<>>) or the core aggregate's YoY at the date
CoreYoYAt(t, sel, p, date) ==
    LET core_cpi_data ==
            IF ShowCoreCPI(sel)
            THEN SortByDate(SelectSeq(t, LAMBDA r : r.PRODUCT = "All items less food and energy"))
            ELSE <<>>
        i == FirstIndexOfDate(core_cpi_data, date)
    IN  IF ShowCoreCPI(sel) /\ core_cpi_data # <<>> /\ i # 0
        THEN <<PctChange(core_cpi_data, i, p)>>
        ELSE <<>>

\* the rows appended for one category at one date (none or one)
CategoryRows(t, sel, start, p, date, date_data, all_items_yoy, c) ==
    LET rep == RepresentativeRow(c, date_data)
    IN  IF rep = <<>> THEN <<>>
        ELSE LET product_historical ==
                     SortByDate(SelectSeq(t, LAMBDA r : r.PRODUCT = rep[1].PRODUCT /\ r.DATE <= date))
             IN  IF Len(product_historical) >= p + 1 /\ PassesStartDate(date, start)
                 THEN LET category_yoy == CategoryYoY(product_historical, p)
                      IN  <<[DATE          |-> date,
                             Category      |-> c,
                             Contribution  |-> ContributionOf(c, category_yoy),
                             Weight        |-> CategoryWeight(c),
                             YoY_Change    |-> category_yoy,
                             Color         |-> CategoryColor(c),
                             All_Items_YoY |-> all_items_yoy,
                             Core_CPI_YoY  |-> CoreYoYAt(t, sel, p, date)]>>
                 ELSE <<>>

\* the loop restricted to the categories named in the selection
LoopedCategoriesSelected(sel) ==
    IF sel = <<>> THEN {Categories[i] : i \in 1..Len(Categories)}
    ELSE {Categories[i] : i \in 1..Len(Categories)} \cap sel[1]

\* for category_name, category_info in CPI_CONTRIBUTION_CATEGORIES.items(): every
\* configured category, whatever the selection
LoopedCategories(sel) == {Categories[i] : i \in 1..Len(Categories)}

\* the headline test with the date never skipped
HeadlineNeverSkipped(all_items_yoy) == FALSE

\* if pd.isna(all_items_yoy): continue
HeadlineSkipped(all_items_yoy) == IsNaN(all_items_yoy)

\* the rows appended in one iteration of the loop over the headline dates
DateRows(t, sel, start, p, all_items_data, date) ==
    LET date_data == SelectSeq(t, LAMBDA r : r.DATE = date)
        all_items_yoy == PctChange(all_items_data, FirstIndexOfDate(all_items_data, date), p)
        looped == LoopedCategories(sel)
        rows(c) == IF c \in looped
                   THEN CategoryRows(t, sel, start, p, date, date_data, all_items_yoy, c)
                   ELSE <<>>
    IN  IF HeadlineSkipped(all_items_yoy) THEN <<>>
        ELSE rows(Categories[1]) \o rows(Categories[2])
          \o rows(Categories[3]) \o rows(Categories[4])

RECURSIVE AllDateRows(_, _, _, _, _, _)
AllDateRows(t, sel, start, p, all_items_data, dates) ==
    IF dates = <<>> THEN <<>>
    ELSE DateRows(t, sel, start, p, all_items_data, Head(dates))
         \o AllDateRows(t, sel, start, p, all_items_data, Tail(dates))

\* the lag the decomposer uses for every series of the call
ContributionPeriods(t) ==
    IF t = <<>> THEN 0 ELSE get_periods_for_frequency(TableFrequency(t))

\* calculate_contribution_data_for_categories(df, selected_categories, user_start_date)
calculate_contribution_data_for_categories(t, sel, start) ==
    IF t = <<>> THEN <<>>
    ELSE LET all_items_data == SortByDate(SelectSeq(t, LAMBDA r : r.PRODUCT = "All items"))
         IN  IF all_items_data = <<>> THEN <<>>
             ELSE AllDateRows(t, sel, start, ContributionPeriods(t), all_items_data,
                              UniqueDates(all_items_data, {}))

-----------------------------------------------------------------------------
(* Inputs of the decomposer runs: the table the contribution loader returns *)

MaxDate == 3            \* periods 1..MaxDate of the grid
MaxMissing == 1         \* observations missing from the grid in the gap family
Steps == {0, 1, 10}     \* level added per period, per product
MemberStep == 5         \* step of the category members that are not representatives
CoreStep == 2           \* step of the core aggregate

\* the products the contribution query selects, in the row order of the result
LoaderProducts ==
    <<"All items", "All items less food and energy", "Food", "Energy",
      "Services less energy services", "Commodities less food and energy commodities",
      "Shelter", "Transportation services", "Food at home", "Food away from home",
      "New vehicles", "Used vehicles and trucks", "Energy services", "Gasoline (all types)">>

\* the products whose series vary between runs
VaryingProducts ==
    {"All items", "Food", "Energy", "Services less energy services",
     "Commodities less food and energy commodities"}

AggregateProducts == VaryingProducts \cup {"All items less food and energy"}

FixedSteps == [q \in VaryingProducts |-> IF q = "All items" THEN 10 ELSE 1]

StepOf(steps, q) ==
    IF q \in DOMAIN steps THEN steps[q]
    ELSE IF q = "All items less food and energy" THEN CoreStep ELSE MemberStep

\* rows (product, period) for the given products, ordered by product, then date,
\* without the missing cells
GridTable(f, products, steps, missing) ==
    LET cells == [k \in 1..(Len(LoaderProducts) * MaxDate) |->
                    LET q == LoaderProducts[((k - 1) \div MaxDate) + 1]
                        d == ((k - 1) % MaxDate) + 1
                    IN  [PRODUCT |-> q, DATE |-> d,
                         VALUE |-> BaseLevel + StepOf(steps, q) * (d - 1), FREQUENCY |-> f]]
    IN  SelectSeq(cells, LAMBDA r : r.PRODUCT \in products /\ <<r.PRODUCT, r.DATE>> \notin missing)

AllProducts == {LoaderProducts[i] : i \in 1..Len(LoaderProducts)}
ProductSets == {AllProducts, AggregateProducts}

GapCells == AggregateProducts \X (1..MaxDate)
GapSets == {m \in SUBSET GapCells : Cardinality(m) <= MaxMissing}

\* None (<<>>) or a list of sidebar labels
SelectionChoices == {<<>>, <<{"Energy", "Food", "Core Goods", "Core Services"}>>}
\* lists that name the core aggregate, and the empty list
CoreSelections == {<<{"Core CPI", "Food"}>>, <<{}>>}
StartChoices == {<<>>} \cup {<<d>> : d \in 1..MaxDate}
AllLabels == FrequencyLabels \cup {"monthly", "None"}

InitContrib ==
    /\ pc = "input"
    /\ \E sel \in SelectionChoices \cup CoreSelections, start \in StartChoices :
          /\ selected_categories = sel
          /\ user_start_date = start
          /\ \/ /\ sel \in SelectionChoices
                /\ \/ \E f \in {"Annual", "Semi-annual"}, steps \in [VaryingProducts -> Steps] :
                         df = GridTable(f, AllProducts, steps, {})
                   \/ \E f \in {"Annual", "Semi-annual"}, ps \in ProductSets, m \in GapSets :
                         df = GridTable(f, ps, FixedSteps, m)
                   \/ \E f \in AllLabels : df = GridTable(f, AllProducts, FixedSteps, {})
             \/ /\ sel \in CoreSelections
                /\ \E f \in {"Annual", "Semi-annual"}, m \in GapSets :
                      df = GridTable(f, AllProducts, FixedSteps, m)
    /\ yoy_data = <<>>
    /\ periods = 0
    /\ contribution_data = <<>>
    /\ all_y_values = <<>>
    /\ y_range = NoRange
    /\ upstream = <<>>
    /\ frequency = "Monthly"
    /\ snowflake_available = TRUE
    /\ metrics = NoMetrics
    /\ cache = NoCache
    /\ clock = 0
    /\ queries = 0
    /\ ai_requests = 0
    /\ widgets = NoWidgets

\* render_contribution_analysis calls the decomposer on the loaded table
CalculateContribution ==
    /\ pc = "input"
    /\ contribution_data' =
          calculate_contribution_data_for_categories(df, selected_categories, user_start_date)
    /\ periods' = IF df = <<>> \/ \A i \in 1..Len(df) : df[i].PRODUCT # "All items"
                  THEN periods ELSE ContributionPeriods(df)
    /\ pc' = "contrib_done"
    /\ UNCHANGED <<df, yoy_data, selected_categories, user_start_date,
                   all_y_values, y_range, upstream, frequency, snowflake_available, cache, clock, queries,
                   metrics, ai_requests, widgets>>

NextContrib == CalculateContribution

SpecContrib == InitContrib /\ [][NextContrib]_vars

\* tables the decomposer accepts that the loader's grid does not contain: a second
\* headline row at a timestamp, a first row whose FREQUENCY label differs from
\* the other rows', and a table without the FREQUENCY column
ExtraLevel == 150       \* level of the second headline row at a timestamp

RepeatedHeadlineTable(f, d, at_front) ==
    LET g == GridTable(f, AllProducts, FixedSteps, {})
        extra == <<[PRODUCT |-> "All items", DATE |-> d, VALUE |-> ExtraLevel, FREQUENCY |-> f]>>
    IN  IF at_front THEN extra \o g ELSE g \o extra

MixedLabelTable(lead, first_label, f) ==
    LET g == GridTable(f, AllProducts, FixedSteps, {})
        leading == SelectSeq(g, LAMBDA r : r.PRODUCT = lead)
    IN  [i \in 1..Len(leading) |-> [leading[i] EXCEPT !.FREQUENCY = first_label]]
        \o SelectSeq(g, LAMBDA r : r.PRODUCT # lead)

NoFrequencyTable ==
    LET g == GridTable("Annual", AllProducts, FixedSteps, {})
    IN  [i \in 1..Len(g) |-> [PRODUCT |-> g[i].PRODUCT, DATE |-> g[i].DATE, VALUE |-> g[i].VALUE]]

InitIrregular ==
    /\ pc = "input"
    /\ selected_categories \in SelectionChoices \cup CoreSelections
    /\ user_start_date \in StartChoices
    /\ \/ \E f \in {"Annual", "Semi-annual"}, d \in 1..MaxDate, at_front \in BOOLEAN :
            df = RepeatedHeadlineTable(f, d, at_front)
       \/ \E lead \in {"All items", "Food"}, first_label \in AllLabels,
             f \in {"Annual", "Semi-annual"} :
            df = MixedLabelTable(lead, first_label, f)
       \/ df = NoFrequencyTable
    /\ yoy_data = <<>>
    /\ periods = 0
    /\ contribution_data = <<>>
    /\ all_y_values = <<>>
    /\ y_range = NoRange
    /\ upstream = <<>>
    /\ frequency = "Monthly"
    /\ snowflake_available = TRUE
    /\ metrics = NoMetrics
    /\ cache = NoCache
    /\ clock = 0
    /\ queries = 0
    /\ ai_requests = 0
    /\ widgets = NoWidgets

SpecIrregular == InitIrregular /\ [][NextContrib]_vars

-----------------------------------------------------------------------------
(* Chart y-axis range (src/cpi-analytics-app.py)                            *)

RECURSIVE SeqMin(_)
SeqMin(s) == IF Len(s) = 1 THEN s[1] ELSE FMin(s[1], SeqMin(Tail(s)))

RECURSIVE SeqMax(_)
SeqMax(s) == IF Len(s) = 1 THEN s[1] ELSE FMax(s[1], SeqMax(Tail(s)))

\* [x for x in values if not pd.isna(x) and abs(x) < 1000]
ValidData(values) == SelectSeq(values, LAMBDA x : ~IsNaN(x) /\ FLt(FAbs(x), Num(1000)))

\* the range before the zero-line adjustment, drawn at the extreme values
MarginRangeTight(valid_data) == <<SeqMin(valid_data), SeqMax(valid_data)>>

\* the range before the zero-line adjustment, without the floor of the margin
MarginRangeNoFloor(valid_data) ==
    LET y_min == SeqMin(valid_data)
        y_max == SeqMax(valid_data)
        y_range_size == FSub(y_max, y_min)
    IN  IF FLt(Rat(1, 10), y_range_size)
        THEN LET margin == FMul(y_range_size, Rat(15, 100))
             IN  <<FSub(y_min, margin), FAdd(y_max, margin)>>
        ELSE LET center == FDiv(FAdd(y_min, y_max), Num(2))
             IN  <<FSub(center, Num(1)), FAdd(center, Num(1))>>

\* the range before the zero-line adjustment
MarginRange(valid_data) ==
    LET y_min == SeqMin(valid_data)
        y_max == SeqMax(valid_data)
        y_range_size == FSub(y_max, y_min)
    IN  IF FLt(Rat(1, 10), y_range_size)
        THEN LET margin == FMax(FMul(y_range_size, Rat(15, 100)), Rat(1, 2))
             IN  <<FSub(y_min, margin), FAdd(y_max, margin)>>
        ELSE LET center == FDiv(FAdd(y_min, y_max), Num(2))
             IN  <<FSub(center, Num(1)), FAdd(center, Num(1))>>

\* the zero-line adjustment that moves a bound to zero
ZeroLineAdjustToZero(r) ==
    <<IF FLt(Rat(1, 10), r[1]) THEN Num(0) ELSE r[1],
      IF FLt(r[2], Rat(-1, 10)) THEN Num(0) ELSE r[2]>>

\* the zero-line adjustment of a range
ZeroLineAdjust(r) ==
    <<IF FLt(Rat(1, 10), r[1]) THEN FMin(r[1], Rat(-2, 10)) ELSE r[1],
      IF FLt(r[2], Rat(-1, 10)) THEN FMax(r[2], Rat(2, 10)) ELSE r[2]>>

\* the y_range a chart derives from the values it displays
ComputeYRange(values, fallback) ==
    IF values = <<>> THEN fallback
    ELSE LET valid_data == ValidData(values)
         IN  IF valid_data = <<>> THEN fallback
             ELSE ZeroLineAdjust(MarginRange(valid_data))

\* y_range = [-1, 5] of create_stacked_histogram and create_major_category_chart
MajorFallback == <<Num(-1), Num(5)>>

\* y_range = [-1, 3] of create_bloomberg_contribution_chart_integrated
ContributionFallback == <<Num(-1), Num(3)>>

MaxValues == 3          \* most values pooled by one chart
\* the pooled values, in hundredths of a percentage point
ValueHundredths == {-150000, -300, -15, 0, 5, 60, 100, 105, 300, 100000}
ValueChoices == {Rat(h, 100) : h \in ValueHundredths} \cup {NaN}

InitRange ==
    /\ pc = "input"
    /\ \E n \in 0..MaxValues : all_y_values \in [1..n -> ValueChoices]
    /\ df = <<>>
    /\ yoy_data = <<>>
    /\ selected_categories = <<>>
    /\ user_start_date = <<>>
    /\ periods = 0
    /\ contribution_data = <<>>
    /\ y_range = NoRange
    /\ upstream = <<>>
    /\ frequency = "Monthly"
    /\ snowflake_available = TRUE
    /\ metrics = NoMetrics
    /\ cache = NoCache
    /\ clock = 0
    /\ queries = 0
    /\ ai_requests = 0
    /\ widgets = NoWidgets

ChartVarsUnchanged ==
    UNCHANGED <<df, yoy_data, selected_categories, user_start_date, periods,
                contribution_data, all_y_values, upstream, frequency, snowflake_available, cache, clock, queries,
                   metrics, ai_requests, widgets>>

\* create_stacked_histogram sets the y-axis range from the bar values
CreateStackedHistogram ==
    /\ pc = "input"
    /\ y_range' = ComputeYRange(all_y_values, MajorFallback)
    /\ pc' = "histogram"
    /\ ChartVarsUnchanged

\* create_major_category_chart sets the y-axis range from all_y_values
CreateMajorCategoryChart ==
    /\ pc = "input"
    /\ y_range' = ComputeYRange(all_y_values, MajorFallback)
    /\ pc' = "major_chart"
    /\ ChartVarsUnchanged

\* create_bloomberg_contribution_chart_integrated sets it from displayed_data
CreateContributionChart ==
    /\ pc = "input"
    /\ y_range' = ComputeYRange(all_y_values, ContributionFallback)
    /\ pc' = "contribution_chart"
    /\ ChartVarsUnchanged

NextRange == CreateStackedHistogram \/ CreateMajorCategoryChart \/ CreateContributionChart

SpecRange == InitRange /\ [][NextRange]_vars

-----------------------------------------------------------------------------
(* Contribution data loader (src/src/data/loader.py)                        *)
(* A date is its day number in the calendar window (day 1 = 1 January of    *)
(* FirstYear); a month is its index in the window (0 = January of FirstYear)*)

FirstYear == 2023       \* first year of the calendar window
CalendarYears == 3      \* years in the calendar window
LookbackDays == 365     \* timedelta(days=365)

IsLeap(y) == (y % 4 = 0 /\ y % 100 # 0) \/ y % 400 = 0

DaysInMonth(mi) ==
    LET y == FirstYear + (mi \div 12)
        m == (mi % 12) + 1
    IN  IF m = 2 THEN (IF IsLeap(y) THEN 29 ELSE 28)
        ELSE IF m \in {4, 6, 9, 11} THEN 30 ELSE 31

\* days of a common year before each month
CumulativeDays == <<0, 31, 59, 90, 120, 151, 181, 212, 243, 273, 304, 334>>

\* leap years among FirstYear .. FirstYear + n - 1
LeapYearsIn(n) == Cardinality({y \in FirstYear..(FirstYear + n - 1) : IsLeap(y)})

\* days of the window before month mi
DaysBefore(mi) ==
    LET n == mi \div 12
        m == (mi % 12) + 1
    IN  365 * n + LeapYearsIn(n) + CumulativeDays[m]
        + (IF m > 2 /\ IsLeap(FirstYear + n) THEN 1 ELSE 0)

Months == 0..(12 * CalendarYears - 1)

\* the month a day lies in
MonthOf(day) == CHOOSE mi \in Months : DaysBefore(mi) < day /\ day <= DaysBefore(mi + 1)

\* df['DATE'].dt.to_period('M').dt.end_time: the end of the last day of the month.
\* Compared with a date at midnight, it behaves as that last day.
MonthEnd(day) == DaysBefore(MonthOf(day) + 1)

\* the months in which a series of the frequency has an observation
ObservationMonths(f) ==
    {mi \in Months :
        CASE f = "Monthly" -> TRUE
          [] f = "Quarterly" -> (mi % 3) = 2
          [] f = "Semi-annual" -> (mi % 6) = 5
          [] f = "Annual" -> (mi % 12) = 11
          [] OTHER -> FALSE}

\* the day the warehouse dates an observation of month mi: its first or last day
ObservationDay(convention, mi) ==
    IF convention = "first" THEN DaysBefore(mi) + 1 ELSE DaysBefore(mi + 1)

UpstreamFrequencies == {"Monthly", "Quarterly", "Semi-annual", "Annual"}

UpstreamFrequencyOrder == <<"Monthly", "Quarterly", "Semi-annual", "Annual">>

\* the complete warehouse table: every aggregate product, every frequency, every
\* period of the window, ordered by series and date
CompleteUpstream(convention) ==
    LET products == SelectSeq(LoaderProducts, LAMBDA q : q \in AggregateProducts)
        nm == 12 * CalendarYears
        nf == Len(UpstreamFrequencyOrder)
        cells == [k \in 1..(Len(products) * nf * nm) |->
                    LET q == products[((k - 1) \div (nf * nm)) + 1]
                        f == UpstreamFrequencyOrder[(((k - 1) \div nm) % nf) + 1]
                        mi == (k - 1) % nm
                    IN  [PRODUCT |-> q, DATE |-> ObservationDay(convention, mi),
                         VALUE |-> BaseLevel + mi, FREQUENCY |-> f, month |-> mi]]
        kept == SelectSeq(cells, LAMBDA r : r.month \in ObservationMonths(r.FREQUENCY))
    IN  [i \in 1..Len(kept) |->
            [PRODUCT |-> kept[i].PRODUCT, DATE |-> kept[i].DATE,
             VALUE |-> kept[i].VALUE, FREQUENCY |-> kept[i].FREQUENCY]]

\* extended_start_date = actual_start_date - timedelta(days=365)
ExtendedStart(start_date) == start_date - LookbackDays

\* load_cpi_timeseries_for_contribution(start_date, end_date, frequency)
load_cpi_timeseries_for_contribution(available, rows, start_date, end_date, f) ==
    IF ~available THEN <<>>
    ELSE LET selected ==
                 SelectSeq(rows, LAMBDA r :
                    /\ r.FREQUENCY = f
                    /\ r.DATE >= ExtendedStart(start_date)
                    /\ r.DATE <= end_date
                    /\ r.PRODUCT \in AllProducts)
         IN  [i \in 1..Len(selected) |-> [selected[i] EXCEPT !.DATE = MonthEnd(selected[i].DATE)]]

StartYearOffset == 1    \* the start dates lie in year FirstYear + StartYearOffset
EndOffsetDays == 45     \* end_date = start_date + EndOffsetDays
StartDays == {"first", "mid", "last"}

\* the start dates offered to the sidebar: first, 15th and last day of a month
StartDate(mi, which) ==
    CASE which = "first" -> DaysBefore(mi) + 1
      [] which = "mid" -> DaysBefore(mi) + 15
      [] which = "last" -> DaysBefore(mi + 1)

InitLoad ==
    /\ pc = "sidebar"
    /\ \E convention \in {"first", "last"} : upstream = CompleteUpstream(convention)
    /\ \E m \in 0..11, which \in StartDays :
          user_start_date = <<StartDate(12 * StartYearOffset + m, which)>>
    /\ frequency \in UpstreamFrequencies
    /\ snowflake_available \in BOOLEAN
    /\ metrics = NoMetrics
    /\ cache = NoCache
    /\ clock = 0
    /\ queries = 0
    /\ ai_requests = 0
    /\ widgets = NoWidgets
    /\ selected_categories \in SelectionChoices \ {<<>>}
    /\ df = <<>>
    /\ yoy_data = <<>>
    /\ periods = 0
    /\ contribution_data = <<>>
    /\ all_y_values = <<>>
    /\ y_range = NoRange

\* render_contribution_analysis: load the table for the sidebar's dates and frequency
LoadForContribution ==
    /\ pc = "sidebar"
    /\ df' = load_cpi_timeseries_for_contribution(snowflake_available, upstream,
                 user_start_date[1], user_start_date[1] + EndOffsetDays, frequency)
    /\ pc' = "loaded"
    /\ UNCHANGED <<yoy_data, selected_categories, user_start_date, periods, contribution_data,
                   all_y_values, y_range, upstream, frequency, snowflake_available, cache, clock, queries,
                   metrics, ai_requests, widgets>>

\* render_contribution_analysis: stop with an error message on an empty table
RenderNoData ==
    /\ pc = "loaded"
    /\ df = <<>>
    /\ pc' = "no_data"
    /\ UNCHANGED <<df, yoy_data, selected_categories, user_start_date, periods,
                   contribution_data, all_y_values, y_range, upstream, frequency,
                   snowflake_available, cache, clock, queries,
                   metrics, ai_requests, widgets>>

\* render_contribution_analysis: decompose the loaded table from the start date on
RenderContribution ==
    /\ pc = "loaded"
    /\ df # <<>>
    /\ contribution_data' =
          calculate_contribution_data_for_categories(df, selected_categories, user_start_date)
    /\ periods' = IF \A i \in 1..Len(df) : df[i].PRODUCT # "All items"
                  THEN periods ELSE ContributionPeriods(df)
    /\ pc' = "rendered"
    /\ UNCHANGED <<df, yoy_data, selected_categories, user_start_date,
                   all_y_values, y_range, upstream, frequency, snowflake_available, cache, clock, queries,
                   metrics, ai_requests, widgets>>

NextLoad == LoadForContribution \/ RenderNoData \/ RenderContribution

SpecLoad == InitLoad /\ [][NextLoad]_vars

-----------------------------------------------------------------------------
(* The loader behind @st.cache_data(ttl=3600), over the reruns of the page  *)

CacheTTL == 3600        \* @st.cache_data(ttl=3600)
TickSeconds == 1500     \* the seconds that pass in one step of the clock
MaxClock == 4500        \* the clock stops here
MaxQueries == 4         \* no rerun after this many queries

\* the arguments st.cache_data hashes: (start_date, end_date, frequency)
CacheKey(start_date, end_date, f) == <<start_date, end_date, f>>

\* the entries of the key that have not expired
FreshEntries(entries, key, now) ==
    {e \in entries : e.key = key /\ now - e.stored_at < CacheTTL}

\* the entries after storing a value under the key
Stored(entries, key, value, now) ==
    {e \in entries : e.key # key} \cup {[key |-> key, value |-> value, stored_at |-> now]}

CacheStartDates == {StartDate(12 * StartYearOffset + 2, "first")}
CacheFrequencies == {"Monthly", "Quarterly"}

InitCache ==
    /\ pc = "sidebar"
    /\ upstream = CompleteUpstream("first")
    /\ user_start_date \in {<<d>> : d \in CacheStartDates}
    /\ frequency \in CacheFrequencies
    /\ snowflake_available = TRUE
    /\ metrics = NoMetrics
    /\ cache = NoCache
    /\ clock = 0
    /\ queries = 0
    /\ ai_requests = 0
    /\ widgets = NoWidgets
    /\ selected_categories = <<{"Energy", "Food", "Core Goods", "Core Services"}>>
    /\ df = <<>>
    /\ yoy_data = <<>>
    /\ periods = 0
    /\ contribution_data = <<>>
    /\ all_y_values = <<>>
    /\ y_range = NoRange

\* render_contribution_analysis calls the decorated loader: a fresh entry of the
\* same arguments is returned as stored; otherwise the body runs, with a query
\* if get_snowflake_session() gives a session, and its return value is stored
CachedLoadForContribution ==
    /\ pc = "sidebar"
    /\ LET start_date == user_start_date[1]
           end_date == start_date + EndOffsetDays
           key == CacheKey(start_date, end_date, frequency)
           fresh == FreshEntries(cache, key, clock)
       IN  IF fresh # {}
           THEN /\ \E e \in fresh : df' = e.value
                /\ UNCHANGED <<cache, queries, snowflake_available>>
           ELSE \E session \in BOOLEAN :
                  LET value == load_cpi_timeseries_for_contribution(
                                   session, upstream, start_date, end_date, frequency)
                  IN  /\ snowflake_available' = session
                      /\ queries' = IF session THEN queries + 1 ELSE queries
                      /\ df' = value
                      /\ cache' = Stored(cache, key, value, clock)
    /\ pc' = "loaded"
    /\ UNCHANGED <<yoy_data, selected_categories, user_start_date, periods, contribution_data,
                   all_y_values, y_range, upstream, frequency, clock,
                   metrics, ai_requests, widgets>>

\* main(): a rerun of the script for a change of the sidebar, its local tables
\* unset; initialize_session sets the flag and the script stops when there is
\* no session
Rerun ==
    /\ pc \in {"no_data", "rendered", "stopped"}
    /\ queries < MaxQueries
    /\ user_start_date' \in {<<d>> : d \in CacheStartDates}
    /\ frequency' \in CacheFrequencies
    /\ snowflake_available' \in BOOLEAN
    /\ pc' = IF snowflake_available' THEN "sidebar" ELSE "stopped"
    /\ df' = <<>>
    /\ contribution_data' = <<>>
    /\ periods' = 0
    /\ UNCHANGED <<yoy_data, selected_categories, all_y_values, y_range, upstream,
                   cache, clock, queries, metrics, ai_requests, widgets>>

\* time passes between two runs of the script
Tick ==
    /\ pc \in {"no_data", "rendered", "stopped"}
    /\ clock + TickSeconds <= MaxClock
    /\ clock' = clock + TickSeconds
    /\ UNCHANGED <<pc, df, yoy_data, selected_categories, user_start_date, periods,
                   contribution_data, all_y_values, y_range, upstream, frequency,
                   snowflake_available, cache, queries, metrics, ai_requests, widgets>>

NextCache == CachedLoadForContribution \/ RenderNoData \/ RenderContribution \/ Rerun \/ Tick

SpecCache == InitCache /\ [][NextCache]_vars

-----------------------------------------------------------------------------
(* Summary metrics (src/src/data/processor.py) and the runs of the engine   *)
(* on one entity's series, dated on the calendar                            *)

\* date - pd.DateOffset(years=1): the same day of the same month one year earlier,
\* 28 February for 29 February; a day of the first calendar year maps before the
\* window, where no observation lies
YearEarlier(day) ==
    LET mi == MonthOf(day)
        dom == day - DaysBefore(mi)
    IN  IF mi < 12 THEN day - 366
        ELSE DaysBefore(mi - 12)
             + (IF dom <= DaysInMonth(mi - 12) THEN dom ELSE DaysInMonth(mi - 12))

\* ((latest - prev) / prev) * 100
RelativeChange(latest, prev) == FMul(FDiv(FSub(latest, prev), prev), Num(100))

RECURSIVE FSum(_)
FSum(s) == IF s = <<>> THEN Num(0) ELSE FAdd(Head(s), FSum(Tail(s)))

\* Series.mean() of a non-empty sequence of floats
FMean(s) == FDiv(FSum(s), Num(Len(s)))

\* the square root, kept symbolic: sqrt(n/d)
FSqrt(x) == IF IsNum(x) /\ x.n >= 0 THEN [k |-> "sqrt", n |-> x.n, d |-> x.d] ELSE NaN

\* Series.std(): the sample standard deviation (ddof = 1), NaN below two values
FStd(s) ==
    IF Len(s) < 2 THEN NaN
    ELSE LET m == FMean(s)
             sq == [i \in 1..Len(s) |-> FMul(FSub(s[i], m), FSub(s[i], m))]
         IN  FSqrt(FDiv(FSum(sq), Num(Len(s) - 1)))

\* the VALUE column of rows a..b as floats
Values(s, a, b) == [i \in 1..(b - a + 1) |-> Num(s[a + i - 1].VALUE)]

\* the keys calculate_inflation_metrics adds for the monthly, yearly and three-month
\* changes and the volatility, each under its own condition
MonthlyChange(df_sorted) ==
    LET n == Len(df_sorted)
    IN  IF n >= 2
        THEN "monthly_change" :> RelativeChange(Num(df_sorted[n].VALUE), Num(df_sorted[n - 1].VALUE))
        ELSE <<>>

YearlyChange(df_sorted) ==
    LET n == Len(df_sorted)
        one_year_ago == SelectSeq(df_sorted, LAMBDA r : r.DATE <= YearEarlier(df_sorted[n].DATE))
    IN  IF one_year_ago # <<>>
        THEN "yearly_change" :> RelativeChange(Num(df_sorted[n].VALUE),
                                               Num(one_year_ago[Len(one_year_ago)].VALUE))
        ELSE <<>>

QuarterlyChange(df_sorted) ==
    LET n == Len(df_sorted)
    IN  IF n >= 4
        THEN LET recent_3m == FMean(Values(df_sorted, n - 2, n))
                 prev_3m == IF n >= 6 THEN FMean(Values(df_sorted, n - 5, n - 3)) ELSE recent_3m
             IN  "quarterly_change" :> RelativeChange(recent_3m, prev_3m)
        ELSE <<>>

Volatility(df_sorted) ==
    LET n == Len(df_sorted)
    IN  IF n >= 12
        THEN LET changes == [i \in 1..n |-> PctChange(df_sorted, i, 1)]
                 monthly_changes == SelectSeq(changes, LAMBDA x : ~IsNaN(x))
             IN  "volatility" :> FStd(monthly_changes)
        ELSE <<>>

\* calculate_inflation_metrics(df, variable_name): the dict of the metrics; the
\* division of floats raises nothing, so the except branch is never taken
calculate_inflation_metrics(t) ==
    IF t = <<>> THEN NoMetrics
    ELSE LET df_sorted == SortByDate(t)
             n == Len(df_sorted)
         IN  MonthlyChange(df_sorted) @@ YearlyChange(df_sorted)
             @@ QuarterlyChange(df_sorted) @@ Volatility(df_sorted)
             @@ ("current_level" :> Num(df_sorted[n].VALUE))
             @@ ("latest_date" :> df_sorted[n].DATE)

MaxObservations == 4                \* longest series of the runs
ObservedLevels == {-100, 0, 100, 110} \* index levels, non-positive ones included
EngineFrequencies == {"Monthly", "Semi-annual"}
EngineProducts == {"All items", "Food"}
Conventions == {"first", "last"}

\* one entity's series as load_cpi_timeseries returns it: ordered by date, one row
\* per period of the frequency from the start of the calendar window
EntityTable(q, f, convention, levels) ==
    [i \in 1..Len(levels) |->
        [PRODUCT |-> q,
         DATE |-> ObservationDay(convention,
                                 IF f = "Monthly" THEN i - 1 ELSE 6 * (i - 1) + 5),
         VALUE |-> levels[i], FREQUENCY |-> f]]

MinSeries == 5          \* shortest and longest series of the monthly runs
MaxSeries == 14
SeriesStartMonths == {0, 12}    \* first month of a monthly run, from the window start

\* a monthly series from a given month on, ordered by date; the level is BaseLevel
\* except in the months of the set doubled, where it is twice that
MonthlyTable(convention, start_month, n, doubled) ==
    [i \in 1..n |->
        [PRODUCT |-> "All items",
         DATE |-> ObservationDay(convention, start_month + i - 1),
         VALUE |-> IF i \in doubled THEN 2 * BaseLevel ELSE BaseLevel,
         FREQUENCY |-> "Monthly"]]

InitEngine ==
    /\ pc = "input"
    /\ \/ \E n \in 0..MaxObservations :
            \E levels \in [1..n -> ObservedLevels], q \in EngineProducts,
               f \in EngineFrequencies, convention \in Conventions :
               df = EntityTable(q, f, convention, levels)
       \/ \E n \in MinSeries..MaxSeries, convention \in Conventions,
             start_month \in SeriesStartMonths :
            \E j1, j2 \in 0..n :
               df = MonthlyTable(convention, start_month, n, {j1, j2})
    /\ yoy_data = <<>>
    /\ selected_categories = <<>>
    /\ user_start_date = <<>>
    /\ periods = 0
    /\ contribution_data = <<>>
    /\ all_y_values = <<>>
    /\ y_range = NoRange
    /\ upstream = <<>>
    /\ frequency = "Monthly"
    /\ snowflake_available = TRUE
    /\ metrics = NoMetrics
    /\ cache = NoCache
    /\ clock = 0
    /\ queries = 0
    /\ ai_requests = 0
    /\ widgets = NoWidgets

\* a page calls calculate_inflation_metrics on the entity's rows
CalculateInflationMetrics ==
    /\ pc = "input"
    /\ metrics' = calculate_inflation_metrics(df)
    /\ pc' = "metrics_done"
    /\ UNCHANGED <<df, yoy_data, selected_categories, user_start_date, periods,
                   contribution_data, all_y_values, y_range, upstream, frequency,
                   snowflake_available, cache, clock, queries, ai_requests, widgets>>

NextEngine == CalculateYoYMonthlyData \/ CalculateInflationMetrics \/ CalculateContribution

SpecEngine == InitEngine /\ [][NextEngine]_vars

-----------------------------------------------------------------------------
(* The two Streamlit pages and their AI requests (src/cpi-analytics-app.py, *)
(* src/src/main.py).  One action is one run of the page script: Streamlit    *)
(* reruns it on every widget change, and st.button returns True only in the *)
(* run its click triggers.                                                  *)

MaxRequests == 6        \* AI queries counted per session
MaxSelected == 2        \* categories or products selected on a page

\* the widget values a run of the page can see
WidgetStates(app) ==
    [app : {app},
     analysis_type : IF app = "modular" THEN {"major", "individual", "contribution"}
                     ELSE {"dashboard"},
     show_ai_analysis : IF app = "monolith" THEN BOOLEAN ELSE {FALSE},
     show_ai_agg_analysis : IF app = "monolith" THEN BOOLEAN ELSE {FALSE},
     has_data : BOOLEAN,            \* the selected period returns rows
     selected : 1..MaxSelected]

\* the AI queries one run of main() of src/src/main.py sends: one AI_AGG query per
\* selected category at the end of render_major_category_analysis, one COMPLETE
\* query at the end of render_individual_product_analysis, none on the
\* contribution page
ModularRequests(w, available) ==
    IF ~available \/ ~w.has_data THEN 0
    ELSE CASE w.analysis_type = "major" -> w.selected
           [] w.analysis_type = "individual" -> 1
           [] OTHER -> 0

InitPages ==
    /\ pc = "page_start"
    /\ \E app \in {"monolith", "modular"} : \E w \in WidgetStates(app) : widgets = w
    /\ df = <<>>
    /\ yoy_data = <<>>
    /\ selected_categories = <<>>
    /\ user_start_date = <<>>
    /\ periods = 0
    /\ contribution_data = <<>>
    /\ all_y_values = <<>>
    /\ y_range = NoRange
    /\ upstream = <<>>
    /\ frequency = "Monthly"
    /\ snowflake_available = TRUE
    /\ metrics = NoMetrics
    /\ cache = NoCache
    /\ clock = 0
    /\ queries = 0
    /\ ai_requests = 0

PageVarsUnchanged ==
    UNCHANGED <<df, yoy_data, selected_categories, user_start_date, periods,
                contribution_data, all_y_values, y_range, upstream, frequency,
                snowflake_available, cache, clock, queries, metrics>>

\* cpi-analytics-app.py main(), run for a page load or a widget change: the AI
\* sections are drawn but no button is pressed
MonolithRerun ==
    /\ widgets.app = "monolith"
    /\ \E w \in WidgetStates("monolith") : widgets' = w
    /\ ai_requests' = ai_requests
    /\ pc' = "rerun"
    /\ PageVarsUnchanged

\* cpi-analytics-app.py main(), run for a click on ai_analysis_button
MonolithPressAIButton ==
    /\ widgets.app = "monolith"
    /\ snowflake_available /\ widgets.has_data /\ widgets.show_ai_analysis
    /\ ai_requests < MaxRequests
    /\ ai_requests' = ai_requests + 1
    /\ pc' = "button_run"
    /\ UNCHANGED widgets
    /\ PageVarsUnchanged

\* cpi-analytics-app.py main(), run for a click on ai_agg_button or
\* ai_agg_individual_button: one AI_AGG query per selected category or product
MonolithPressAIAggButton ==
    /\ widgets.app = "monolith"
    /\ snowflake_available /\ widgets.has_data /\ widgets.show_ai_agg_analysis
    /\ ai_requests + widgets.selected <= MaxRequests
    /\ ai_requests' = ai_requests + widgets.selected
    /\ pc' = "button_run"
    /\ UNCHANGED widgets
    /\ PageVarsUnchanged

\* src/src/main.py main(), run for a page load or a widget change
ModularRerun ==
    /\ widgets.app = "modular"
    /\ \E w \in WidgetStates("modular") :
          /\ widgets' = w
          /\ ai_requests + ModularRequests(w, snowflake_available) <= MaxRequests
          /\ ai_requests' = ai_requests + ModularRequests(w, snowflake_available)
    /\ pc' = "rerun"
    /\ PageVarsUnchanged

NextPages == MonolithRerun \/ MonolithPressAIButton \/ MonolithPressAIAggButton \/ ModularRerun

SpecPages == InitPages /\ [][NextPages]_vars

-----------------------------------------------------------------------------
(* Properties of the change-rate calculator                                 *)

Range(s) == {s[i] : i \in 1..Len(s)}

\* the row of the set S with the i-th smallest DATE (timestamps unique)
RankedRow(S, i) == CHOOSE r \in S : Cardinality({q \in S : q.DATE < r.DATE}) = i - 1

\* the row of table t with the i-th smallest DATE
RowOfRank(t, i) == RankedRow(Range(t), i)

LevelAt(t, i) == Num(RowOfRank(t, i).VALUE)

\* (cur - prev) / prev * 100
ChangePct(cur, prev) == FMul(FDiv(FSub(cur, prev), prev), Num(100))

\* the change rate the specification gives to sorted index i for lag N
ExpectedChange(t, i, N) ==
    IF i <= N THEN NaN ELSE ChangePct(LevelAt(t, i), LevelAt(t, i - N))

Defined(s, col(_)) == {i \in 1..Len(s) : ~IsNaN(col(s[i]))}

SupportedFrequencies == {"Monthly", "Quarterly", "Semi-annual", "Annual"}

\* C1: for a series of any supported frequency f, the YoY value the change-rate
\* table holds at sorted index i is (level[i] - level[i-N]) / level[i-N] * 100 with
\* N = periods_for_frequency(f), and is undefined for every i <= N (1-based).
C1_FrequencyAwareYoY ==
    (pc = "yoy_done" /\ df # <<>> /\ df[1].FREQUENCY \in SupportedFrequencies) =>
        \A i \in 1..Len(yoy_data) :
            yoy_data[i].YoY_Change =
                ExpectedChange(df, i, get_periods_for_frequency(df[1].FREQUENCY))

\* C2: for a monthly series of at least 13 observations in any row order, the
\* result is in date order, its YoY value at 0-based index i >= 12 is
\* (level[i] - level[i-12]) / level[i-12] * 100 (index 12 uses level[0]), and the
\* YoY value is undefined at every index below 12.
C2_MonthlyYoY ==
    (pc = "yoy_done" /\ Len(df) >= 13 /\ df[1].FREQUENCY = "Monthly") =>
        /\ Len(yoy_data) = Len(df)
        /\ \A i \in 1..Len(yoy_data) :
              /\ yoy_data[i].DATE = RowOfRank(df, i).DATE
              /\ yoy_data[i].YoY_Change = ExpectedChange(df, i, 12)
              /\ (i <= 12 <=> IsNaN(yoy_data[i].YoY_Change))
        /\ yoy_data[13].YoY_Change = ChangePct(LevelAt(df, 13), LevelAt(df, 1))

C2_Witness ==
    /\ pc = "yoy_done" /\ Len(df) >= 13 /\ df[1].FREQUENCY = "Monthly"
    /\ df[1].DATE # 1
    /\ IsNum(yoy_data[13].YoY_Change) /\ yoy_data[13].YoY_Change.n # 0

\* C3: the MoM value at sorted index i >= 1 is (level[i] - level[i-1]) / level[i-1] * 100
\* and is undefined at index 0; a monthly series of 1 <= k < 13 points has no defined
\* YoY value and exactly k-1 defined MoM values.
C3_MoMAndShortSeries ==
    (pc = "yoy_done" /\ df # <<>>) =>
        /\ \A i \in 1..Len(yoy_data) : yoy_data[i].MoM_Change = ExpectedChange(df, i, 1)
        /\ IsNaN(yoy_data[1].MoM_Change)
        /\ (df[1].FREQUENCY = "Monthly" /\ Len(df) < 13) =>
              /\ Defined(yoy_data, LAMBDA r : r.YoY_Change) = {}
              /\ Cardinality(Defined(yoy_data, LAMBDA r : r.MoM_Change)) = Len(df) - 1

C3_Witness ==
    /\ pc = "yoy_done" /\ Len(df) = 10 /\ df[1].FREQUENCY = "Monthly"
    /\ Defined(yoy_data, LAMBDA r : r.YoY_Change) = {}
    /\ Cardinality(Defined(yoy_data, LAMBDA r : r.MoM_Change)) = 9
    /\ \E i \in 2..10 : yoy_data[i].MoM_Change.n # 0

-----------------------------------------------------------------------------
(* Properties of the contribution decomposer                                *)

RowsOf(t, q) == {r \in Range(t) : r.PRODUCT = q}
HistoryUpTo(t, q, T) == {r \in RowsOf(t, q) : r.DATE <= T}
CategorySet == {Categories[i] : i \in 1..Len(Categories)}
ResultRows == Range(contribution_data)
HasHeadline(t) == RowsOf(t, "All items") # {}

\* the lag the specification gives to a frequency label
SpecifiedPeriods(f) ==
    IF f = "Monthly" THEN 12
    ELSE IF f = "Quarterly" THEN 4
    ELSE IF f = "Semi-annual" THEN 2
    ELSE IF f = "Annual" THEN 1
    ELSE 12

\* the weight the configuration gives to a category
SpecifiedWeight(c) ==
    IF c = "Core Services" THEN Rat(58, 100)
    ELSE IF c = "Core Goods" THEN Rat(20, 100)
    ELSE IF c = "Food" THEN Rat(14, 100)
    ELSE Rat(8, 100)

\* (T, c) passes every test of the decomposer but the start-date filter: the
\* headline has an observation at T and N earlier ones, the representative of c
\* has an observation at T and at least N+1 observations up to T
Eligible(t, T, c, N) ==
    /\ \E r \in RowsOf(t, "All items") : r.DATE = T
    /\ Cardinality({r \in RowsOf(t, "All items") : r.DATE < T}) >= N
    /\ \E r \in RowsOf(t, RepresentativeName(c)) : r.DATE = T
    /\ Cardinality(HistoryUpTo(t, RepresentativeName(c), T)) >= N + 1

\* the YoY of the representative of c at T: last level against the level N rows earlier
RepresentativeYoY(t, T, c, N) ==
    LET hist == HistoryUpTo(t, RepresentativeName(c), T)
        n == Cardinality(hist)
    IN  ChangePct(Num(RankedRow(hist, n).VALUE), Num(RankedRow(hist, n - N).VALUE))

\* the rows of t in ascending order of DATE (timestamps unique)
AscendingArrangement(t) == [i \in 1..Len(t) |-> RowOfRank(t, i)]

\* (timestamp, MoM, YoY) of each row of a change-rate table
RateTriples(s) == [i \in 1..Len(s) |-> <<s[i].DATE, s[i].MoM_Change, s[i].YoY_Change>>]

\* C22: for any row order of one entity's observations with unique timestamps,
\* calculate_yoy_monthly_data returns the rows in strictly ascending timestamp
\* order, and the (timestamp, MoM, YoY) values are the same for every permutation
\* of the rows: they are those of the ascending arrangement.
C22_PermutationInvariance ==
    pc = "yoy_done" =>
        /\ \A i \in 1..(Len(yoy_data) - 1) : yoy_data[i].DATE < yoy_data[i + 1].DATE
        /\ Len(yoy_data) = Len(df)
        /\ RateTriples(yoy_data) = RateTriples(calculate_yoy_monthly_data(AscendingArrangement(df)))

\* an input of 13 rows that is neither ascending nor descending, with a defined
\* YoY in the last output row
C22_Witness ==
    /\ pc = "yoy_done" /\ Len(df) = 13
    /\ \E i, j \in 1..12 : df[i].DATE < df[i + 1].DATE /\ df[j].DATE > df[j + 1].DATE
    /\ yoy_data[13].DATE = 13
    /\ ~IsNaN(yoy_data[13].YoY_Change)

\* C4: get_periods_for_frequency returns 12 for Monthly, 4 for Quarterly, 2 for
\* Semi-annual, 1 for Annual and 12 for every other label (unknown, differently
\* cased or missing), so the lag is always one of 1, 2, 4, 12.
C4_PeriodsForFrequency ==
    (pc = "contrib_done" /\ df # <<>> /\ HasHeadline(df)) =>
        /\ periods = SpecifiedPeriods(df[1].FREQUENCY)
        /\ periods \in {1, 2, 4, 12}

C4_Witness ==
    /\ pc = "contrib_done" /\ df # <<>> /\ HasHeadline(df)
    /\ df[1].FREQUENCY = "monthly" /\ periods = 12

\* C5: every contribution row has Contribution = Weight * YoY_Change, Weight the
\* configured weight of its category (0.58, 0.20, 0.14, 0.08) and YoY_Change the YoY
\* of the category's representative product at the row's date.
C5_ContributionIsWeightTimesYoY ==
    pc = "contrib_done" =>
        \A r \in ResultRows :
            /\ r.Weight = SpecifiedWeight(r.Category)
            /\ r.Contribution = FMul(r.Weight, r.YoY_Change)
            /\ r.YoY_Change = RepresentativeYoY(df, r.DATE, r.Category, periods)

C5_Witness ==
    /\ pc = "contrib_done"
    /\ \E r \in ResultRows :
          /\ r.Category = "Energy" /\ r.Weight = Rat(8, 100)
          /\ r.YoY_Change = Num(10) /\ r.Contribution = Rat(8, 10)

\* the dates at which all four categories have a contribution row
FullDates ==
    {T \in {r.DATE : r \in ResultRows} :
        \A c \in CategorySet : \E r \in ResultRows : r.DATE = T /\ r.Category = c}

RowAt(T, c) == CHOOSE r \in ResultRows : r.DATE = T /\ r.Category = c

ContributionSum(T) ==
    FAdd(FAdd(RowAt(T, "Core Services").Contribution, RowAt(T, "Core Goods").Contribution),
         FAdd(RowAt(T, "Food").Contribution, RowAt(T, "Energy").Contribution))

Within2(a, b) == FLe(FAbs(FSub(a, b)), Num(2))

\* C6 as stated: at every date with all four categories, the sum of the four
\* contributions is within 2 percentage points of All_Items_YoY.
C6_ReconciliationAlways ==
    pc = "contrib_done" =>
        \A T \in FullDates : Within2(ContributionSum(T), RowAt(T, "Food").All_Items_YoY)

\* C6 (amended): at every date with all four categories, the sum of the four
\* contributions is within 2 percentage points of All_Items_YoY whenever each of
\* the four representative YoY values is within 2 percentage points of it.
C6_ReconciliationWhenAligned ==
    pc = "contrib_done" =>
        \A T \in FullDates :
            (\A c \in CategorySet : Within2(RowAt(T, c).YoY_Change, RowAt(T, c).All_Items_YoY))
                => Within2(ContributionSum(T), RowAt(T, "Food").All_Items_YoY)

C6_Witness ==
    /\ pc = "contrib_done"
    /\ \E T \in FullDates :
          /\ \A c \in CategorySet : Within2(RowAt(T, c).YoY_Change, RowAt(T, c).All_Items_YoY)
          /\ \E c \in CategorySet : RowAt(T, c).YoY_Change # RowAt(T, c).All_Items_YoY
          /\ ContributionSum(T) # RowAt(T, "Food").All_Items_YoY

HeadlineDates(t) == {r.DATE : r \in RowsOf(t, "All items")}

\* C9: a row is emitted for date T only if user_start_date is None or T >= it;
\* every row has DATE >= user_start_date when one is given, and no row that is
\* otherwise eligible is dropped (in particular none when it is None).
C9_StartDateFilter ==
    pc = "contrib_done" =>
        /\ {<<r.DATE, r.Category>> : r \in ResultRows} =
              {x \in HeadlineDates(df) \X CategorySet :
                  /\ Eligible(df, x[1], x[2], periods)
                  /\ (user_start_date = <<>> \/ x[1] >= user_start_date[1])}
        /\ user_start_date # <<>> => \A r \in ResultRows : r.DATE >= user_start_date[1]

C9_Witness ==
    /\ pc = "contrib_done" /\ user_start_date # <<>>
    /\ \E r \in ResultRows : r.DATE = user_start_date[1]
    /\ \E T \in HeadlineDates(df), c \in CategorySet :
          T < user_start_date[1] /\ Eligible(df, T, c, periods)

\* C10: if the designated representative of a category has no observation at T, no
\* row is emitted for that category at T, even when other members of the category
\* have observations at T.
C10_NoFallback ==
    pc = "contrib_done" =>
        \A T \in HeadlineDates(df), c \in CategorySet :
            (\A r \in RowsOf(df, RepresentativeName(c)) : r.DATE # T)
                => ~\E r \in ResultRows : r.DATE = T /\ r.Category = c

C10_Witness ==
    /\ pc = "contrib_done"
    /\ \E T \in HeadlineDates(df), c \in CategorySet :
          /\ \A r \in RowsOf(df, RepresentativeName(c)) : r.DATE # T
          /\ \E q \in CategoryProducts(c) :
                /\ \E r \in RowsOf(df, q) : r.DATE = T
                /\ Cardinality(HistoryUpTo(df, q, T)) >= periods + 1
          /\ \E r \in ResultRows : r.DATE = T /\ r.Category # c

\* C17: the YoY of a representative at T is computed from all rows of that
\* product with DATE <= T, rows before user_start_date included, in date order,
\* as (value of the last row / value N rows earlier - 1) * 100; (category, T) is
\* skipped when there are fewer than N+1 such rows; the lag counts rows, and
\* gaps are not resampled.
C17_PositionalLagOverHistory ==
    (pc = "contrib_done" /\ df # <<>>) =>
        LET N == SpecifiedPeriods(df[1].FREQUENCY)
        IN  /\ \A r \in ResultRows :
                  LET hist == HistoryUpTo(df, RepresentativeName(r.Category), r.DATE)
                      n == Cardinality(hist)
                  IN  /\ n >= N + 1
                      /\ r.YoY_Change =
                            FMul(FSub(FDiv(Num(RankedRow(hist, n).VALUE),
                                           Num(RankedRow(hist, n - N).VALUE)), Num(1)), Num(100))
            /\ \A T \in HeadlineDates(df), c \in CategorySet :
                  Cardinality(HistoryUpTo(df, RepresentativeName(c), T)) < N + 1
                      => ~\E r \in ResultRows : r.DATE = T /\ r.Category = c

\* a row at the user's start date whose representative misses the period before:
\* the YoY reaches over the gap to a row that lies before user_start_date
C17_Witness ==
    /\ pc = "contrib_done" /\ periods = 1
    /\ \E r \in ResultRows :
          LET hist == HistoryUpTo(df, RepresentativeName(r.Category), r.DATE)
          IN  /\ user_start_date = <<r.DATE>>
              /\ {q.DATE : q \in hist} = {r.DATE - 2, r.DATE}
              /\ r.YoY_Change = Num(2)

\* C18: at every date T of 'All items' at which the headline YoY is undefined
\* (fewer than N earlier headline observations) no row is emitted for any
\* category, even if every representative has enough history; every emitted row
\* carries the defined headline YoY of its own date in All_Items_YoY.
C18_HeadlineGating ==
    (pc = "contrib_done" /\ df # <<>>) =>
        LET N == SpecifiedPeriods(df[1].FREQUENCY)
        IN  /\ \A T \in HeadlineDates(df) :
                  Cardinality({q \in RowsOf(df, "All items") : q.DATE < T}) < N
                      => ~\E r \in ResultRows : r.DATE = T
            /\ \A r \in ResultRows :
                  LET head == HistoryUpTo(df, "All items", r.DATE)
                      n == Cardinality(head)
                  IN  /\ n > N
                      /\ ~IsNaN(r.All_Items_YoY)
                      /\ r.All_Items_YoY = ChangePct(Num(RankedRow(head, n).VALUE),
                                                     Num(RankedRow(head, n - N).VALUE))

\* the headline misses its first period, so its YoY is undefined at the second,
\* where every representative has the history for its own YoY
C18_Witness ==
    /\ pc = "contrib_done" /\ periods = 1
    /\ \E T \in HeadlineDates(df) :
          /\ Cardinality(HistoryUpTo(df, "All items", T)) = 1
          /\ \A c \in CategorySet :
                /\ \E q \in RowsOf(df, RepresentativeName(c)) : q.DATE = T
                /\ Cardinality(HistoryUpTo(df, RepresentativeName(c), T)) >= 2
          /\ (user_start_date = <<>> \/ user_start_date[1] <= T)
          /\ ~\E r \in ResultRows : r.DATE = T
          /\ \E r \in ResultRows : r.DATE > T

\* C26: the result of the decomposer has at most one row per (DATE, Category),
\* hence at most four rows per date; every Category is one of the four
\* configured categories and every DATE is a date of the 'All items' series;
\* this holds even if the headline series has repeated timestamps.
C26_OneRowPerDateAndCategory ==
    pc = "contrib_done" =>
        /\ \A i, j \in 1..Len(contribution_data) :
              (contribution_data[i].DATE = contribution_data[j].DATE
               /\ contribution_data[i].Category = contribution_data[j].Category) => i = j
        /\ \A T \in HeadlineDates(df) :
              Cardinality({i \in 1..Len(contribution_data) : contribution_data[i].DATE = T}) <= 4
        /\ \A i \in 1..Len(contribution_data) :
              /\ contribution_data[i].Category \in {"Core Services", "Core Goods", "Food", "Energy"}
              /\ contribution_data[i].DATE \in HeadlineDates(df)

\* the headline has two rows at one timestamp, and that date has its four rows
C26_Witness ==
    /\ pc = "contrib_done"
    /\ \E i, j \in 1..Len(df) :
          /\ i # j /\ df[i].PRODUCT = "All items" /\ df[j].PRODUCT = "All items"
          /\ df[i].DATE = df[j].DATE
          /\ Cardinality({k \in 1..Len(contribution_data) :
                             contribution_data[k].DATE = df[i].DATE}) = 4

\* no product has two rows at one timestamp
TimestampsUnique(t) ==
    \A i, j \in 1..Len(t) : (t[i].PRODUCT = t[j].PRODUCT /\ t[i].DATE = t[j].DATE) => i = j

\* the change of product q at T against its row N positions earlier, undefined
\* when it has no more than N rows up to T
LaggedChange(t, q, T, N) ==
    LET hist == HistoryUpTo(t, q, T)
        n == Cardinality(hist)
    IN  IF n <= N THEN NaN
        ELSE ChangePct(Num(RankedRow(hist, n).VALUE), Num(RankedRow(hist, n - N).VALUE))

\* C28: one call of the decomposer uses a single lag N for the headline, the
\* core aggregate and every representative; N comes from the FREQUENCY label of
\* the first row of the whole table, whatever its product, and is 12 when the
\* table has no FREQUENCY column or the label is unknown.
C28_SingleLagFromFirstRow ==
    (pc = "contrib_done" /\ df # <<>>) =>
        LET has_column == "FREQUENCY" \in DOMAIN df[1]
            N == IF ~has_column THEN 12
                 ELSE IF df[1].FREQUENCY \in SupportedFrequencies
                      THEN SpecifiedPeriods(df[1].FREQUENCY) ELSE 12
        IN  /\ periods = N
            /\ TimestampsUnique(df) =>
                  \A r \in ResultRows :
                     /\ r.All_Items_YoY = LaggedChange(df, "All items", r.DATE, N)
                     /\ r.YoY_Change = LaggedChange(df, RepresentativeName(r.Category), r.DATE, N)
                     /\ r.Core_CPI_YoY # <<>> =>
                           r.Core_CPI_YoY[1] =
                              LaggedChange(df, "All items less food and energy", r.DATE, N)

\* the first row is a Food row labelled Annual, the headline rows are labelled
\* Semi-annual, and the rows of the second period are computed with lag 1
C28_Witness ==
    /\ pc = "contrib_done" /\ df # <<>>
    /\ "FREQUENCY" \in DOMAIN df[1]
    /\ df[1].PRODUCT = "Food" /\ df[1].FREQUENCY = "Annual"
    /\ \E i \in 1..Len(df) : df[i].PRODUCT = "All items" /\ df[i].FREQUENCY = "Semi-annual"
    /\ periods = 1
    /\ \E r \in ResultRows : r.DATE = 2 /\ r.Core_CPI_YoY # <<>>

\* a contribution row without its Core_CPI_YoY field
Projected(r) == <<r.DATE, r.Category, r.Contribution, r.Weight, r.YoY_Change, r.All_Items_YoY>>

\* selections to compare a run with: None, a list without and a list with the
\* core aggregate
AnySelection == {<<>>, <<{"Energy"}>>, <<{"Core CPI"}>>}

\* C27: for a fixed input table and start date, the set of emitted rows projected
\* on (DATE, Category, Contribution, Weight, YoY_Change, All_Items_YoY) is the
\* same for every value of selected_categories; the selection changes only the
\* Core_CPI_YoY field.
C27_SelectionNonInterference ==
    pc = "contrib_done" =>
        \A sel \in AnySelection :
            LET other == calculate_contribution_data_for_categories(df, sel, user_start_date)
            IN  {Projected(r) : r \in Range(other)} = {Projected(r) : r \in ResultRows}

\* a run with the selection {Food, Core CPI} whose rows carry the core YoY; the
\* selection {Energy} gives the same rows without it
C27_Witness ==
    /\ pc = "contrib_done"
    /\ selected_categories = <<{"Core CPI", "Food"}>>
    /\ \E r \in ResultRows : r.Category = "Energy" /\ r.Core_CPI_YoY # <<>>
    /\ LET other == calculate_contribution_data_for_categories(df, <<{"Energy"}>>, user_start_date)
       IN  /\ Len(other) = Len(contribution_data)
           /\ \A i \in 1..Len(other) : other[i].Core_CPI_YoY = <<>>

-----------------------------------------------------------------------------
(* Properties of the chart range                                            *)

ChartDone == pc \in {"histogram", "major_chart", "contribution_chart"}

\* C11: Core_CPI_YoY of a contribution row is populated only when
\* selected_categories is None or contains the Core CPI category; for a list
\* without Core CPI, the empty list included, every emitted row has
\* Core_CPI_YoY = None.
C11_CoreOnlyInScope ==
    pc = "contrib_done" =>
        \A i \in 1..Len(contribution_data) :
            contribution_data[i].Core_CPI_YoY # <<>> =>
                (selected_categories = <<>> \/ "Core CPI" \in selected_categories[1])

\* the empty list: rows are emitted at a date where the core aggregate has a
\* defined YoY, and none of them carries it
C11_Witness ==
    /\ pc = "contrib_done"
    /\ selected_categories = <<{}>>
    /\ \E i \in 1..Len(contribution_data) :
          LET core == HistoryUpTo(df, "All items less food and energy",
                                  contribution_data[i].DATE)
          IN  /\ contribution_data[i].Core_CPI_YoY = <<>>
              /\ \E r \in core : r.DATE = contribution_data[i].DATE
              /\ Cardinality(core) > periods

\* C12: whenever a change-rate calculation (MoM, YoY, the summary's monthly or
\* yearly change) would divide by a prior level that is zero or negative, the
\* value is undefined and omitted: no value is emitted for it.
C12_NonPositiveDenominator ==
    /\ pc = "yoy_done" =>
          \A i \in 1..Len(yoy_data) :
             /\ (i > 1 /\ yoy_data[i - 1].VALUE <= 0) => IsNaN(yoy_data[i].MoM_Change)
             /\ (i > YoYLag /\ yoy_data[i - YoYLag].VALUE <= 0) => IsNaN(yoy_data[i].YoY_Change)
    /\ pc = "metrics_done" =>
          LET n == Len(df)
              last == RowOfRank(df, n)
              year_ago == {r \in Range(df) : r.DATE <= YearEarlier(last.DATE)}
          IN  /\ (n >= 2 /\ RowOfRank(df, n - 1).VALUE <= 0 /\ "monthly_change" \in DOMAIN metrics)
                    => IsNaN(metrics["monthly_change"])
              /\ (year_ago # {} /\ RankedRow(year_ago, Cardinality(year_ago)).VALUE <= 0
                    /\ "yearly_change" \in DOMAIN metrics)
                    => IsNaN(metrics["yearly_change"])

\* C13: an empty input never fails: calculate_yoy_monthly_data returns an empty
\* table, calculate_inflation_metrics an empty mapping, and the decomposer an
\* empty table both for an empty input and for an input without 'All items' rows.
C13_EmptyInputEmptyOutput ==
    /\ (pc = "yoy_done" /\ df = <<>>) => yoy_data = <<>>
    /\ (pc = "metrics_done" /\ df = <<>>) => DOMAIN metrics = {}
    /\ (pc = "contrib_done" /\ ~HasHeadline(df)) => contribution_data = <<>>

\* the summary of an empty table is the empty mapping
C13_Witness ==
    /\ pc = "metrics_done"
    /\ df = <<>>
    /\ DOMAIN metrics = {}

\* C15: for an entity with exactly one observation the change-rate step returns an
\* empty result: no change-rate rows and no metrics.
C15_SingleObservationEmpty ==
    Len(df) = 1 =>
        /\ pc = "yoy_done" => yoy_data = <<>>
        /\ pc = "metrics_done" => DOMAIN metrics = {}

\* C16: an AI text-generation request is issued only as the direct consequence
\* of pressing an analysis button; a run of a page for rendering, re-rendering
\* or a changed date range never issues one.
C16_AIOnlyOnButton == [][ai_requests' # ai_requests => pc' = "button_run"]_vars

\* table t with the level of the observation of date rank i replaced by v
Altered(t, i, v) ==
    [j \in 1..Len(t) |-> IF t[j] = RowOfRank(t, i) THEN [t[j] EXCEPT !.VALUE = v] ELSE t[j]]

\* C23: volatility is reported by calculate_inflation_metrics if and only if the
\* series has at least 12 observations, and it depends only on the MoM changes
\* of the most recent 12 periods: altering an observation older than that
\* window leaves it unchanged.
C23_VolatilityTrailingWindow ==
    pc = "metrics_done" =>
        /\ "volatility" \in DOMAIN metrics <=> Len(df) >= 12
        /\ \A i \in 1..(Len(df) - 13), v \in {BaseLevel, 2 * BaseLevel} :
              calculate_inflation_metrics(Altered(df, i, v))["volatility"] = metrics["volatility"]

\* the mean of the levels of date ranks a..b
MeanLevel(t, a, b) == FDiv(FSum([i \in 1..(b - a + 1) |-> LevelAt(t, a + i - 1)]), Num(b - a + 1))

\* C24: for a series of at least 6 points the 3-month average change is (mean of
\* the last 3 levels - mean of the 3 levels before them) / that earlier mean * 100;
\* for 3, 4 or 5 points it is reported with the last-3 mean as its own baseline,
\* so its value is 0; for fewer than 3 points it is absent.
C24_ThreeMonthAverage ==
    pc = "metrics_done" =>
        LET n == Len(df)
        IN  /\ n >= 6 =>
                  /\ "quarterly_change" \in DOMAIN metrics
                  /\ metrics["quarterly_change"] =
                        ChangePct(MeanLevel(df, n - 2, n), MeanLevel(df, n - 5, n - 3))
            /\ n \in 3..5 =>
                  /\ "quarterly_change" \in DOMAIN metrics
                  /\ FLt(Num(0), MeanLevel(df, n - 2, n)) => metrics["quarterly_change"] = Num(0)
            /\ n < 3 => "quarterly_change" \notin DOMAIN metrics

\* C29: for a monthly series on a regular grid with at least 13 observations, the
\* yearly_change of calculate_inflation_metrics equals the YoY_Change of the final
\* row of calculate_yoy_monthly_data on the same series, and monthly_change
\* equals that row's MoM_Change.
C29_SummaryAgreesWithSeries ==
    (pc = "metrics_done" /\ Len(df) >= 13 /\ df[1].FREQUENCY = "Monthly") =>
        LET series == calculate_yoy_monthly_data(df)
        IN  /\ "yearly_change" \in DOMAIN metrics
            /\ metrics["yearly_change"] = series[Len(series)].YoY_Change
            /\ "monthly_change" \in DOMAIN metrics
            /\ metrics["monthly_change"] = series[Len(series)].MoM_Change

\* C7: for every non-empty set of finite values with |v| < 1000 the display range
\* satisfies lower <= 0 <= upper.
C7_RangeContainsZero ==
    (ChartDone /\ all_y_values # <<>> /\ ValidData(all_y_values) = all_y_values) =>
        FLe(y_range[1], Num(0)) /\ FLe(Num(0), y_range[2])

\* the pooled values that are finite and below 1000 in absolute value
PooledValid == {x \in Range(all_y_values) : ~IsNaN(x) /\ FLt(FAbs(x), Num(1000))}

Lowest(S) == CHOOSE x \in S : \A y \in S : FLe(x, y)
Highest(S) == CHOOSE x \in S : \A y \in S : FLe(y, x)

\* the range the specification gives before the zero correction
SpecifiedBaseRange ==
    LET lo == Lowest(PooledValid)
        hi == Highest(PooledValid)
        span == FSub(hi, lo)
        m == IF FLe(Rat(1, 2), FMul(Rat(15, 100), span))
             THEN FMul(Rat(15, 100), span) ELSE Rat(1, 2)
        c == FDiv(FAdd(lo, hi), Num(2))
    IN  IF FLt(Rat(1, 10), span) THEN <<FSub(lo, m), FAdd(hi, m)>>
        ELSE <<FSub(c, Num(1)), FAdd(c, Num(1))>>

\* C19: with lo, hi the minimum and maximum of the pooled valid values and
\* span = hi - lo, the range before the zero correction is [lo - m, hi + m] with
\* m = max(0.15 * span, 0.5) if span > 0.1, and [c - 1, c + 1] with
\* c = (lo + hi) / 2 otherwise.
C19_RangeBeforeZeroCorrection ==
    (ChartDone /\ PooledValid # {}) =>
        /\ MarginRange(ValidData(all_y_values)) = SpecifiedBaseRange
        /\ (y_range[1] = SpecifiedBaseRange[1] \/ FLt(Rat(1, 10), SpecifiedBaseRange[1]))
        /\ (y_range[2] = SpecifiedBaseRange[2] \/ FLt(SpecifiedBaseRange[2], Rat(-1, 10)))

\* values -0.15 and 0.05 beside a NaN (span 0.2, margin at its floor 0.5), or
\* values -3 and 3 (span 6, margin 0.9), with the stated range
C19_Witness ==
    /\ ChartDone
    /\ \/ /\ Range(all_y_values) = {Rat(-15, 100), Rat(5, 100), NaN}
          /\ y_range = <<Rat(-65, 100), Rat(55, 100)>>
       \/ /\ Range(all_y_values) = {Num(-3), Num(3)}
          /\ y_range = <<Rat(-39, 10), Rat(39, 10)>>

\* C20: a lower bound above 0.1 is replaced by -0.2 and an upper bound below
\* -0.1 by 0.2; a lower bound <= 0.1 and an upper bound >= -0.1 are left
\* unchanged; the values [1.0, 1.0, 1.0] give exactly [0.0, 2.0].
C20_ZeroCorrection ==
    (ChartDone /\ PooledValid # {}) =>
        /\ y_range[1] = IF FLt(Rat(1, 10), SpecifiedBaseRange[1])
                        THEN Rat(-2, 10) ELSE SpecifiedBaseRange[1]
        /\ y_range[2] = IF FLt(SpecifiedBaseRange[2], Rat(-1, 10))
                        THEN Rat(2, 10) ELSE SpecifiedBaseRange[2]
        /\ all_y_values = <<Num(1), Num(1), Num(1)>> => y_range = <<Num(0), Num(2)>>

\* the single value 3.0: the range [2, 4] becomes [-0.2, 4]
C20_Witness ==
    /\ ChartDone
    /\ all_y_values = <<Num(3)>>
    /\ y_range = <<Rat(-2, 10), Num(4)>>

\* C21: missing values and values with |v| >= 1000 never influence the display
\* range, and if no value survives the filter (or the input is empty) the result
\* is one fixed fallback range, independent of the input and the same for every
\* chart.
C21_PoolingAndOneFallback ==
    ChartDone =>
        /\ PooledValid # {} =>
              y_range = <<IF FLt(Rat(1, 10), SpecifiedBaseRange[1])
                          THEN Rat(-2, 10) ELSE SpecifiedBaseRange[1],
                          IF FLt(SpecifiedBaseRange[2], Rat(-1, 10))
                          THEN Rat(2, 10) ELSE SpecifiedBaseRange[2]>>
        /\ PooledValid = {} =>
              /\ y_range = ComputeYRange(<<>>, MajorFallback)
              /\ y_range = ComputeYRange(<<>>, ContributionFallback)

\* C30: for every input, the empty one and one without valid values included,
\* the display range has lower < upper and a width of at least 1; when a valid
\* value exists, every pooled valid value lies strictly between the bounds; the
\* zero correction only widens the range.
C30_RangeWidthAndContainment ==
    ChartDone =>
        /\ FLt(y_range[1], y_range[2])
        /\ FLe(Num(1), FSub(y_range[2], y_range[1]))
        /\ \A v \in PooledValid : FLt(y_range[1], v) /\ FLt(v, y_range[2])
        /\ PooledValid # {} =>
              /\ FLe(y_range[1], SpecifiedBaseRange[1])
              /\ FLe(SpecifiedBaseRange[2], y_range[2])

\* values 3.0 and 1.05: the range [0.55, 3.5] is widened to [-0.2, 3.5]
C30_Witness ==
    /\ ChartDone
    /\ Range(all_y_values) = {Num(3), Rat(105, 100)}
    /\ SpecifiedBaseRange = <<Rat(55, 100), Rat(7, 2)>>
    /\ y_range = <<Rat(-2, 10), Rat(7, 2)>>

-----------------------------------------------------------------------------
(* Properties of the loader                                                 *)

\* C8: the lookback of 365 days is sufficient: with complete upstream data, for
\* every start date and frequency every headline period T >= start_date of the
\* loaded table gets a contribution row for each of the four categories.
C8_LookbackSufficient ==
    pc = "rendered" =>
        \A T \in HeadlineDates(df), c \in CategorySet :
            T >= user_start_date[1] => \E r \in ResultRows : r.DATE = T /\ r.Category = c

\* C25: the loader's results are memoized by its call parameters for 3600
\* seconds: a call within the expiry of an entry of the same parameters returns
\* the stored table without a query, a call with other parameters or after the
\* expiry issues a new query, and the decomposer computes its result from the
\* table of the call alone.
C25_MemoizedByParameters ==
    [][/\ (pc = "sidebar" /\ pc' = "loaded") =>
            LET start_date == user_start_date[1]
                key == CacheKey(start_date, start_date + EndOffsetDays, frequency)
                fresh == FreshEntries(cache, key, clock)
            IN  /\ fresh # {} => queries' = queries /\ \E e \in fresh : df' = e.value
                /\ fresh = {} => queries' = queries + 1
       /\ (pc = "loaded" /\ pc' = "rendered") =>
            contribution_data' =
                calculate_contribution_data_for_categories(df, selected_categories,
                                                           user_start_date)]_vars


====
